---------------------------- MODULE Spec2Model ----------------------------
(***************************************************************************)
(* Wind Turbine Digital Twin: the SCADA simulator (scada_simulator.py),    *)
(* the physics / health engine (dt_engine.py), the parameter set           *)
(* (config.py) and the driver that calls them (dashboard.py).              *)
(*                                                                         *)
(* Python floats are modelled as fixed-point integers, every product and   *)
(* quotient rounded to the nearest unit of the result:                     *)
(*   wind_speed 0.01 m/s      rpm       0.01 RPM     pitch   0.01 deg      *)
(*   power, p_wind 1 W        gen_temp, gb_temp 0.001 degC                 *)
(*   vibration  0.01 mm/s     omega 0.001 rad/s      tsr     0.001         *)
(*   cp         0.0001        torque 1 N.m                                 *)
(* random.random() is modelled in halves: a unit draw u \in {0,1,2} stands *)
(* for u/2, so uniform(a,b) takes the values a, (a+b)/2 and b.             *)
(***************************************************************************)
EXTENDS Integers, Sequences, FiniteSets, TLC

VARIABLES
    config,       \* the config module's values, fixed when it is imported
    rng,          \* state of the process-global generator of module random
    heap,         \* the snapshot dicts allocated so far, by reference
    state,        \* st.session_state.state of each session: a reference
    physics,      \* current_physics of the session's script run
    health,       \* current_health of the session's script run
    last_health,  \* what the latest evaluate_health call returned
    pc,           \* where each session's script run stands
    n             \* number of sim.step calls made so far

vars == <<config, rng, heap, state, physics, health, last_health, pc, n>>

\* Bound on the number of step calls explored after the initial state.
MaxSteps == 2

-----------------------------------------------------------------------------
(* Float arithmetic.                                                       *)

Min(a, b) == IF a < b THEN a ELSE b
Max(a, b) == IF a > b THEN a ELSE b

\* <<Q, R>> with a * b = Q * c + R and 0 <= R < c, for 0 <= a < c: long
\* multiplication over the decimal digits of b, so that no intermediate
\* value leaves 32 bits.
RECURSIVE LongMul(_, _, _)
LongMul(a, b, c) ==
    IF b = 0 THEN <<0, 0>>
    ELSE LET p == LongMul(a, b \div 10, c)
             t == 10 * p[2] + a * (b % 10)
         IN  <<10 * p[1] + (t \div c), t % c>>

\* a * b / c rounded to the nearest integer (b >= 0, c > 0, a of any sign).
MulDiv(a, b, c) ==
    LET p == LongMul(a % c, b, c)
    IN  (a \div c) * b + p[1] + (IF 2 * p[2] >= c THEN 1 ELSE 0)

-----------------------------------------------------------------------------
(* config.py                                                               *)

ShippedConfig ==
    [ AIR_DENSITY   |-> 1225,        \* 1.225 kg/m^3, in g/m^3
      ROTOR_RADIUS  |-> 40,          \* 40.0 m
      PI_CONFIG     |-> 31416,       \* the 3.1416 of ROTOR_AREA, in 1/10000
      RATED_POWER   |-> 2000000,     \* W
      EFFICIENCY    |-> 92,          \* 0.92, in percent
      CUT_IN_WIND   |-> 300,         \* 3.0 m/s
      RATED_WIND    |-> 1200,        \* 12.0 m/s
      CUT_OUT_WIND  |-> 2500,        \* 25.0 m/s
      MAX_RPM       |-> 1800,        \* 18.0 RPM
      MIN_RPM       |-> 300,         \* 3.0 RPM
      MIN_PITCH     |-> 0,           \* 0.0 deg
      MAX_PITCH     |-> 2500,        \* 25.0 deg
      CP_MAX        |-> 5900,        \* 0.59
      CP_NOMINAL    |-> 4500,        \* 0.45
      GEN_TEMP_WARN |-> 85000,       \* 85.0 degC
      GEN_TEMP_CRIT |-> 95000,       \* 95.0 degC
      GB_TEMP_WARN  |-> 90000,       \* 90.0 degC
      GB_TEMP_CRIT  |-> 100000,      \* 100.0 degC
      VIB_WARN      |-> 600,         \* 6.0 mm/s
      VIB_CRIT      |-> 1000 ]       \* 10.0 mm/s

\* ROTOR_AREA = 3.1416 * ROTOR_RADIUS**2, in 0.01 m^2.
ROTOR_AREA(cfg) ==
    MulDiv(cfg.PI_CONFIG, cfg.ROTOR_RADIUS * cfg.ROTOR_RADIUS, 100)

-----------------------------------------------------------------------------
(* scada_simulator.py                                                      *)

initialize_state ==
    [ wind_speed |-> 800,
      rpm        |-> 800,
      pitch      |-> 200,
      power      |-> 0,
      gen_temp   |-> 40000,
      gb_temp    |-> 45000,
      vibration  |-> 250 ]

\* random.uniform(a, b) for the unit draw u (in halves): a + (b - a) * u/2.
uniform(a, b, u) == a + MulDiv(b - a, u, 2)

\* 0.5 * AIR_DENSITY * ROTOR_AREA * wind**3, in W.
WindPower(cfg, wind) ==
    LET cube  == MulDiv(wind * wind, wind, 1000)                 \* 0.001 (m/s)^3
        halfA == MulDiv(cfg.AIR_DENSITY, ROTOR_AREA(cfg), 2000)  \* 0.01 kg/m
    IN  MulDiv(cube, halfA, 100000)

\* 1. wind speed: previous + noise + drift, floored at 0.
StepWind(prev, u1, u2) ==
    Max(0, prev.wind_speed + uniform(-20, 20, u1) + uniform(-2, 2, u2))

\* Mutant of StepRpm: the floor rpm = max(MIN_RPM, rpm) is left out.
StepRpmNoFloor(cfg, wind) ==
    IF wind < cfg.RATED_WIND
    THEN Min(cfg.MAX_RPM, MulDiv(wind, 15, 10))
    ELSE cfg.MAX_RPM

\* 2. rotor speed.
StepRpm(cfg, wind) ==
    LET rpm == IF wind < cfg.RATED_WIND
               THEN Min(cfg.MAX_RPM, MulDiv(wind, 15, 10))
               ELSE cfg.MAX_RPM
    IN  Max(cfg.MIN_RPM, rpm)

\* Mutant of StepPitch: above rated wind the pitch restarts from MIN_PITCH
\* instead of ramping from the previous pitch.
StepPitchNoRamp(cfg, prev, wind, u3) ==
    IF wind <= cfg.RATED_WIND
    THEN cfg.MIN_PITCH + uniform(0, 30, u3)
    ELSE Min(cfg.MAX_PITCH, cfg.MIN_PITCH + uniform(10, 30, u3))

\* 3. pitch angle.
StepPitch(cfg, prev, wind, u3) ==
    IF wind <= cfg.RATED_WIND
    THEN cfg.MIN_PITCH + uniform(0, 30, u3)
    ELSE Min(cfg.MAX_PITCH, prev.pitch + uniform(10, 30, u3))

\* 4. power output.
StepPower(cfg, wind) ==
    IF wind < cfg.CUT_IN_WIND
    THEN 0
    ELSE Min(cfg.RATED_POWER,
             MulDiv(WindPower(cfg, wind), cfg.EFFICIENCY * 4, 1000))

\* Mutant of GenEquilibrium: the gearbox's factor 90 in place of 80.
GenEquilibrium90(cfg, power) == MulDiv(power, 90000, cfg.RATED_POWER)

\* The equilibrium power / RATED_POWER * 80 of the generator temperature.
GenEquilibrium(cfg, power) == MulDiv(power, 80000, cfg.RATED_POWER)

\* Mutant of StepGenTemp: the correction is subtracted.
StepGenTempAway(cfg, prev, power) ==
    prev.gen_temp - MulDiv(GenEquilibrium(cfg, power) - prev.gen_temp, 1, 100)

\* 5. generator temperature.
StepGenTemp(cfg, prev, power) ==
    prev.gen_temp + MulDiv(GenEquilibrium(cfg, power) - prev.gen_temp, 1, 100)

\* 6. gearbox temperature; gb_load in 1/1000000.
StepGbTemp(cfg, prev, power, rpm) ==
    LET gb_load == MulDiv(power, 1000000, cfg.RATED_POWER)
                   + MulDiv(rpm, 1000000, cfg.MAX_RPM)
    IN  prev.gb_temp + MulDiv(MulDiv(gb_load, 90000, 1000000) - prev.gb_temp,
                              8, 1000)

\* 7. vibration, floored at 0.5 in the returned dict.
StepVibration(prev, u4) ==
    Max(50, prev.vibration + uniform(-2, 2, u4))

\* step(state) for the four unit draws d the call takes from the generator,
\* in the order of its random.uniform calls for this branch.
step(cfg, prev, d) ==
    LET wind  == StepWind(prev, d[1], d[2])
        rpm   == StepRpm(cfg, wind)
        power == StepPower(cfg, wind)
    IN  [ wind_speed |-> wind,
          rpm        |-> rpm,
          pitch      |-> StepPitch(cfg, prev, wind, d[3]),
          power      |-> power,
          gen_temp   |-> StepGenTemp(cfg, prev, power),
          gb_temp    |-> StepGbTemp(cfg, prev, power, rpm),
          vibration  |-> StepVibration(prev, d[4]) ]

-----------------------------------------------------------------------------
(* dt_engine.py                                                            *)

\* power / p_wind in 0.0001; the fixed-point quotient saturates at +-200.
PowerRatio(power, p_wind) ==
    IF power \div p_wind >= 200 THEN 2000000
    ELSE IF power \div p_wind < -200 THEN -2000000
    ELSE MulDiv(power, 10000, p_wind)

\* omega = 2.0 * math.pi * rpm / 60.0
Omega(rpm) == MulDiv(rpm, 2 * 3141593, 6000000)

\* cp: power / p_wind capped at CP_MAX when p_wind > 1.0, else 0.
PowerCoefficient(cfg, power, p_wind) ==
    IF p_wind > 1
    THEN Min(PowerRatio(power, p_wind), cfg.CP_MAX)
    ELSE 0

compute_physics(cfg, scada) ==
    LET wind   == scada.wind_speed
        rpm    == scada.rpm
        power  == scada.power
        omega  == Omega(rpm)
        p_wind == IF wind > 0 THEN WindPower(cfg, wind) ELSE 0
        tsr    == IF wind > 10
                  THEN MulDiv(omega * cfg.ROTOR_RADIUS, 100, wind)
                  ELSE 0
        torque == IF omega > 100 THEN MulDiv(power, 1000, omega) ELSE 0
    IN  [ omega  |-> omega,
          p_wind |-> p_wind,
          tsr    |-> tsr,
          cp     |-> PowerCoefficient(cfg, power, p_wind),
          torque |-> torque ]

\* if value > crit: CRITICAL / elif value > warn: WARN, over the default OK.
Level(value, warn, crit) ==
    IF value > crit THEN "CRITICAL"
    ELSE IF value > warn THEN "WARN"
    ELSE "OK"

\* Mutant of Performance: the cut-in guard on the wind speed is left out.
PerformanceNoGuard(cfg, scada, dt) ==
    IF dt.cp < 2500 THEN "WARN" ELSE "OK"

\* if dt["cp"] < 0.25 and scada["wind_speed"] > CUT_IN_WIND: WARN
Performance(cfg, scada, dt) ==
    IF dt.cp < 2500 /\ scada.wind_speed > cfg.CUT_IN_WIND THEN "WARN" ELSE "OK"

\* Mutant of evaluate_health: the health dict is kept between calls, so a
\* channel the previous call raised to CRITICAL stays CRITICAL.
evaluate_health_latching(cfg, scada, dt) ==
    LET Latch(before, now) == IF before = "CRITICAL" THEN before ELSE now
    IN  [ generator_temp |-> Latch(last_health.generator_temp,
                                   Level(scada.gen_temp, cfg.GEN_TEMP_WARN,
                                         cfg.GEN_TEMP_CRIT)),
          gearbox_temp   |-> Latch(last_health.gearbox_temp,
                                   Level(scada.gb_temp, cfg.GB_TEMP_WARN,
                                         cfg.GB_TEMP_CRIT)),
          vibration      |-> Latch(last_health.vibration,
                                   Level(scada.vibration, cfg.VIB_WARN,
                                         cfg.VIB_CRIT)),
          performance    |-> Performance(cfg, scada, dt) ]

evaluate_health(cfg, scada, dt) ==
    [ generator_temp |-> Level(scada.gen_temp, cfg.GEN_TEMP_WARN,
                               cfg.GEN_TEMP_CRIT),
      gearbox_temp   |-> Level(scada.gb_temp, cfg.GB_TEMP_WARN,
                               cfg.GB_TEMP_CRIT),
      vibration      |-> Level(scada.vibration, cfg.VIB_WARN, cfg.VIB_CRIT),
      performance    |-> Performance(cfg, scada, dt) ]

-----------------------------------------------------------------------------
(* module random: the process-global generator behind random.uniform.      *)
(* Seeded (random.seed), its state is the tape of unit draws it will       *)
(* return; seeded from OS entropy, any draw may come next.                 *)

UnitDraws == {0, 1, 2}

\* The draw vectors explored for an unseeded generator: the extremes of the
\* four draws in every combination, and the four midpoints.
EntropyDraws == {d \in [1..4 -> {0, 2}] : TRUE} \cup {[i \in 1..4 |-> 1]}

\* A seeded generator's output: a linear congruential stand-in for the
\* Mersenne Twister, read in halves.
RECURSIVE Lcg(_, _)
Lcg(seed, i) == IF i = 0 THEN seed ELSE (5 * Lcg(seed, i - 1) + 3) % 16

Tape(seed) == [i \in 1..(4 * MaxSteps) |-> Lcg(seed, i) % 3]

Unseeded == [seeded |-> FALSE, seed |-> 0, tape |-> <<>>]
Seeded(seed) == [seeded |-> TRUE, seed |-> seed, tape |-> Tape(seed)]

\* Mutant of NextDraws: step draws from a source that seeding does not fix.
NextDrawsEntropy(g) == EntropyDraws

\* The four draws the next step call can get, and the generator after them.
NextDraws(g) ==
    IF g.seeded
    THEN IF Len(g.tape) >= 4 THEN {SubSeq(g.tape, 1, 4)} ELSE {}
    ELSE EntropyDraws

Advance(g) ==
    IF g.seeded
    THEN [g EXCEPT !.tape = SubSeq(g.tape, 5, Len(g.tape))]
    ELSE g

-----------------------------------------------------------------------------
(* dashboard.py: one script run per session, rerun after each run.         *)

NoPhysics == [omega |-> 0, p_wind |-> 0, tsr |-> 0, cp |-> 0, torque |-> 0]
NoHealth  == [generator_temp |-> "NONE", gearbox_temp |-> "NONE",
              vibration |-> "NONE", performance |-> "NONE"]

\* The browser sessions the process may serve; one that is not open is
\* "absent" and takes no step.
Sessions == {1, 2}

\* Mutant of StepCall: step writes its results into the dict it was passed
\* and returns that dict.
StepCallInPlace(cfg, h, ref, d) == [h EXCEPT ![ref] = step(cfg, h[ref], d)]

\* The heap after sim.step(h[ref]): step only reads the dict it is passed
\* and returns a new dict, the last of the heap.
StepCall(cfg, h, ref, d) == Append(h, step(cfg, h[ref], d))

\* st.session_state.state = sim.step(st.session_state.state)
CallStep(s) ==
    /\ n < MaxSteps
    /\ \E d \in NextDraws(rng) : heap' = StepCall(config, heap, state[s], d)
    /\ state' = [state EXCEPT ![s] = Len(heap')]
    /\ rng' = Advance(rng)
    /\ n' = n + 1

\* if "state" not in st.session_state: state = sim.initialize_state()
SessionInit(s) ==
    /\ pc[s] = "new"
    /\ heap' = Append(heap, initialize_state)
    /\ state' = [state EXCEPT ![s] = Len(heap')]
    /\ pc' = [pc EXCEPT ![s] = "controls"]
    /\ UNCHANGED <<config, rng, physics, health, last_health, n>>

\* if step_once: the button was pressed.
StepOnce(s) ==
    /\ pc[s] = "controls"
    /\ CallStep(s)
    /\ pc' = [pc EXCEPT ![s] = "compute"]
    /\ UNCHANGED <<config, physics, health, last_health>>

\* step_once is False.
NoStep(s) ==
    /\ pc[s] = "controls"
    /\ pc' = [pc EXCEPT ![s] = "compute"]
    /\ UNCHANGED <<config, rng, heap, state, physics, health, last_health, n>>

\* current_physics = dt.compute_physics(current_scada)
\* current_health = dt.evaluate_health(current_scada, current_physics)
ComputeDT(s) ==
    /\ pc[s] = "compute"
    /\ physics' = [physics EXCEPT
                      ![s] = compute_physics(config, heap[state[s]])]
    /\ health' = [health EXCEPT
                      ![s] = evaluate_health(config, heap[state[s]],
                                             physics'[s])]
    /\ last_health' = health'[s]
    /\ pc' = [pc EXCEPT ![s] = "live"]
    /\ UNCHANGED <<config, rng, heap, state, n>>

\* if run_live: sleep, step, st.rerun()
LiveStep(s) ==
    /\ pc[s] = "live"
    /\ CallStep(s)
    /\ pc' = [pc EXCEPT ![s] = "controls"]
    /\ physics' = [physics EXCEPT ![s] = NoPhysics]
    /\ health' = [health EXCEPT ![s] = NoHealth]
    /\ UNCHANGED <<config, last_health>>

\* run_live is False: the run ends, the next interaction starts another.
Paused(s) ==
    /\ pc[s] = "live"
    /\ pc' = [pc EXCEPT ![s] = "controls"]
    /\ physics' = [physics EXCEPT ![s] = NoPhysics]
    /\ health' = [health EXCEPT ![s] = NoHealth]
    /\ UNCHANGED <<config, rng, heap, state, last_health, n>>

Next ==
    \E s \in Sessions :
        \/ SessionInit(s)
        \/ StepOnce(s)
        \/ NoStep(s)
        \/ ComputeDT(s)
        \/ LiveStep(s)
        \/ Paused(s)

-----------------------------------------------------------------------------
(* Initial states.                                                         *)

\* k consecutive step calls with the same draws d.
RECURSIVE Run(_, _, _, _)
Run(cfg, snapshot, d, k) ==
    IF k = 0 THEN snapshot
    ELSE IF k = 1 THEN step(cfg, snapshot, d)
    ELSE LET half == Run(cfg, snapshot, d, k \div 2)
         IN  IF half.wind_speed >= 0      \* evaluate half before going on
             THEN Run(cfg, half, d, k - (k \div 2))
             ELSE half

\* A run of phases <<draws, count>>, from initialize_state().
RECURSIVE RunPhases(_, _, _)
RunPhases(cfg, snapshot, phases) ==
    IF phases = <<>> THEN snapshot
    ELSE RunPhases(cfg, Run(cfg, snapshot, phases[1][1], phases[1][2]),
                   Tail(phases))

Up   == <<2, 2, 2, 2>>
Down == <<0, 0, 0, 0>>
Hold == <<1, 1, 1, 1>>
Calm == <<1, 1, 1, 0>>

\* Operating points the simulator reaches from initialize_state(): each a
\* sequence of phases of step calls with constant draws.
Schedules ==
    { << <<Up, 19>> >>,                    \* wind 12.18: just above rated
      << <<Up, 19>>, <<Hold, 130>> >>,     \* pitch ramped up to MAX_PITCH
      << <<Up, 20>>, <<Hold, 700>> >>,     \* rated power, gen_temp settled
      << <<Up, 28>> >>,                    \* wind 14.16: cp below 0.25
      << <<Down, 23>> >>,                  \* wind 2.94: just below cut-in
      << <<Down, 23>>, <<Hold, 700>> >>,   \* no power, gen_temp settled
      << <<Down, 36>> >>,                  \* wind 0.08: floors of wind, rpm
      << <<Calm, 99>> >> }                 \* vibration 0.52: at its floor

OperatingPoints ==
    {RunPhases(ShippedConfig, initialize_state, p) : p \in Schedules}

\* A session in the middle of its life: its snapshot and a new script run.
Running(snapshot) ==
    /\ heap = <<snapshot>>
    /\ state = [s \in Sessions |-> IF s = 1 THEN 1 ELSE 0]
    /\ pc = [s \in Sessions |-> IF s = 1 THEN "controls" ELSE "absent"]

\* A session that has not run its script yet.
Fresh(S) ==
    /\ heap = <<>>
    /\ state = [s \in Sessions |-> 0]
    /\ pc = [s \in Sessions |-> IF s \in S THEN "new" ELSE "absent"]

Blank ==
    /\ physics = [s \in Sessions |-> NoPhysics]
    /\ health = [s \in Sessions |-> NoHealth]
    /\ last_health = NoHealth
    /\ n = 0

\* One dashboard session, the shipped parameter set, an unseeded generator.
Init ==
    /\ config = ShippedConfig
    /\ rng = Unseeded
    /\ \/ Fresh({1})
       \/ \E p \in OperatingPoints : Running(p)
    /\ Blank

Spec == Init /\ [][Next]_vars

-----------------------------------------------------------------------------
(* Two sessions of one process, the generator seeded (random.seed).        *)

Seeds == {1, 2, 3}

InitSites ==
    /\ config = ShippedConfig
    /\ \E k \in Seeds : rng = Seeded(k)
    /\ Fresh({1, 2})
    /\ Blank

SpecSites == InitSites /\ [][Next]_vars

-----------------------------------------------------------------------------
(* Repeated runs under a fixed random source: a run seeds the generator,   *)
(* starts from initialize_state and steps; the run before it is over.      *)

\* random.seed(k) with the seed used before: the generator starts over.
Reseed(g) == Seeded(g.seed)

\* random.seed(k); state = sim.initialize_state()
StartRun(s) ==
    /\ pc[s] = "new"
    /\ rng' = Reseed(rng)
    /\ heap' = Append(heap, initialize_state)
    /\ state' = [state EXCEPT ![s] = Len(heap')]
    /\ pc' = [t \in Sessions |->
                 IF t = s THEN "controls"
                 ELSE IF pc[t] = "new" THEN "new" ELSE "absent"]
    /\ n' = 0
    /\ UNCHANGED <<config, physics, health, last_health>>

NextRuns ==
    \E s \in Sessions :
        \/ StartRun(s)
        \/ StepOnce(s)
        \/ NoStep(s)
        \/ ComputeDT(s)
        \/ LiveStep(s)
        \/ Paused(s)

SpecRuns == InitSites /\ [][NextRuns]_vars

-----------------------------------------------------------------------------
(* The dashboard started with an edited config.py.                         *)

Configs ==
    { ShippedConfig,
      [ShippedConfig EXCEPT !.GEN_TEMP_WARN = 95000, !.GEN_TEMP_CRIT = 85000],
      [ShippedConfig EXCEPT !.VIB_WARN = 1000],
      [ShippedConfig EXCEPT !.MIN_RPM = 1800, !.MAX_RPM = 300],
      [ShippedConfig EXCEPT !.RATED_WIND = 300],
      [ShippedConfig EXCEPT !.MAX_PITCH = 0, !.MIN_PITCH = 500],
      [ShippedConfig EXCEPT !.CP_MAX = 4000] }

InitCfg ==
    /\ config \in Configs
    /\ rng = Unseeded
    /\ Fresh({1})
    /\ Blank

SpecCfg == InitCfg /\ [][Next]_vars

-----------------------------------------------------------------------------
(* The engine called directly on given snapshots, by two call sites.       *)

WindIn  == {0, 5, 10, 11, 200, 300, 301, 800, 1400, 2500}
RpmIn   == {0, 95, 96, 800, 1800}
PowerIn == {-1000, 0, 393900, 394083, 394200, 2000000}
GenIn   == {70000, 85000, 85001, 95000, 95001, 96000}
GbIn    == {70000, 90000, 90001, 100000, 100001}
VibIn   == {200, 600, 601, 1000, 1001}

Inputs ==
    { [initialize_state EXCEPT !.wind_speed = w, !.rpm = r, !.power = p] :
          w \in WindIn, r \in RpmIn, p \in PowerIn }
    \cup
    { [initialize_state EXCEPT !.gen_temp = g, !.gb_temp = b,
                               !.vibration = v] :
          g \in GenIn, b \in GbIn, v \in VibIn }

\* The snapshots of the second call site.
Scenarios ==
    { [initialize_state EXCEPT !.wind_speed = 0, !.rpm = 0, !.power = 0],
      [initialize_state EXCEPT !.gen_temp = 96000, !.gb_temp = 70000,
                               !.vibration = 200, !.power = 580089],
      [initialize_state EXCEPT !.wind_speed = 200, !.power = 0],
      initialize_state }

InitEngine ==
    /\ config = ShippedConfig
    /\ rng = Unseeded
    /\ \E a \in Inputs, b \in Scenarios : heap = <<a, b>>
    /\ state = [s \in Sessions |-> s]
    /\ pc = [s \in Sessions |-> "compute"]
    /\ Blank

NextEngine == \E s \in Sessions : ComputeDT(s)

SpecEngine == InitEngine /\ [][NextEngine]_vars

-----------------------------------------------------------------------------
(* Properties.                                                             *)

Refs == 1..Len(heap)

\* Session s holds a snapshot (its script has passed the session-state init).
Open(s) == pc[s] \in {"controls", "compute", "live"}

\* This transition is a sim.step call of session s.
Stepped(s) == n' = n + 1 /\ state'[s] # state[s]

\* C1: every snapshot step returns, from initialize_state() or from a
\* snapshot step returned earlier, has MIN_RPM <= rpm <= MAX_RPM,
\* MIN_PITCH <= pitch <= MAX_PITCH, 0 <= power <= RATED_POWER,
\* wind_speed >= 0 and vibration >= 0.5.
C1_StepBounds ==
    \A o \in Refs :
        /\ config.MIN_RPM <= heap[o].rpm /\ heap[o].rpm <= config.MAX_RPM
        /\ config.MIN_PITCH <= heap[o].pitch
        /\ heap[o].pitch <= config.MAX_PITCH
        /\ 0 <= heap[o].power /\ heap[o].power <= config.RATED_POWER
        /\ heap[o].wind_speed >= 0
        /\ heap[o].vibration >= 50

\* A step has put the wind at its floor 0 and the rotor at MIN_RPM.
C1_Witness ==
    \E s \in Sessions :
        /\ Open(s) /\ n >= 1
        /\ heap[state[s]].wind_speed = 0
        /\ heap[state[s]].rpm = config.MIN_RPM

\* C10: in every snapshot reachable from initialize_state() gen_temp stays
\* within [0, 80], so evaluate_health reports generator_temp OK whenever the
\* dashboard evaluates it.
C10_GenTempRange ==
    /\ \A o \in Refs : 0 <= heap[o].gen_temp /\ heap[o].gen_temp <= 80000
    /\ \A s \in Sessions :
          pc[s] = "live" => health[s].generator_temp = "OK"

\* After a step at rated power the generator is within 0.1 degC of 80 and
\* is reported OK.
C10_Witness ==
    \E s \in Sessions :
        /\ pc[s] = "live" /\ n >= 1
        /\ heap[state[s]].gen_temp > 79900
        /\ health[s].generator_temp = "OK"

\* C9: a step whose new wind is above RATED_WIND sets pitch to
\* min(MAX_PITCH, previous pitch + d) for a d in [0.1, 0.3]: pitch does not
\* decrease, rises by at most 0.3, gains at least 0.1 until it is at
\* MAX_PITCH and then stays there; a step whose new wind is at or below
\* RATED_WIND sets pitch within [MIN_PITCH, MIN_PITCH + 0.3].
C9_PitchRamp ==
    [][\A s \in Sessions :
          Stepped(s) =>
              LET old == heap[state[s]]
                  new == heap'[state'[s]]
              IN  /\ new.wind_speed > config.RATED_WIND =>
                        /\ \E d \in 10..30 :
                              new.pitch = Min(config.MAX_PITCH, old.pitch + d)
                        /\ new.pitch >= old.pitch
                        /\ new.pitch <= old.pitch + 30
                        /\ new.pitch >= Min(config.MAX_PITCH, old.pitch + 10)
                        /\ old.pitch = config.MAX_PITCH =>
                              new.pitch = config.MAX_PITCH
                  /\ new.wind_speed <= config.RATED_WIND =>
                        /\ config.MIN_PITCH <= new.pitch
                        /\ new.pitch <= config.MIN_PITCH + 30]_vars

\* With the wind above rated, pitch was at MAX_PITCH and a step kept it there.
C9_Witness ==
    \E s \in Sessions :
        /\ Open(s) /\ n >= 1 /\ state[s] >= 2
        /\ heap[state[s]].wind_speed > config.RATED_WIND
        /\ heap[state[s] - 1].pitch = config.MAX_PITCH
        /\ heap[state[s]].pitch = config.MAX_PITCH

\* C7 as stated: in a step that produces power P, a gen_temp above the
\* equilibrium P / RATED_POWER * 80 becomes strictly lower and not below
\* the equilibrium; one below it becomes strictly higher and not above it.
C7_StrictRelaxation ==
    [][\A s \in Sessions :
          Stepped(s) =>
              LET old == heap[state[s]].gen_temp
                  new == heap'[state'[s]].gen_temp
                  eq  == GenEquilibrium(config, heap'[state'[s]].power)
              IN  /\ old > eq => (new < old /\ new >= eq)
                  /\ old < eq => (new > old /\ new <= eq)]_vars

\* C7 amended: gen_temp never moves away from the equilibrium and never
\* crosses it, and it does move while 1% of its distance to the equilibrium
\* is at least one unit of the arithmetic.
C7_Relaxation ==
    [][\A s \in Sessions :
          Stepped(s) =>
              LET old == heap[state[s]].gen_temp
                  new == heap'[state'[s]].gen_temp
                  eq  == GenEquilibrium(config, heap'[state'[s]].power)
              IN  /\ old > eq => (new <= old /\ new >= eq)
                  /\ old < eq => (new >= old /\ new <= eq)
                  /\ old - eq >= 100 => new < old
                  /\ eq - old >= 100 => new > old]_vars

\* Two consecutive steps produced the same power and gen_temp, above its
\* equilibrium before the second, came strictly down.
C7_Witness ==
    \E s \in Sessions :
        /\ Open(s) /\ n >= 2 /\ state[s] >= 3
        /\ heap[state[s] - 1].power = heap[state[s]].power
        /\ heap[state[s] - 2].power = heap[state[s]].power
        /\ heap[state[s] - 1].gen_temp >
               GenEquilibrium(config, heap[state[s]].power)
        /\ heap[state[s]].gen_temp < heap[state[s] - 1].gen_temp
        /\ heap[state[s] - 1].gen_temp < heap[state[s] - 2].gen_temp

\* The level a channel must show for a value and its two thresholds:
\* CRITICAL exactly above crit, WARN exactly above warn and not above crit,
\* OK otherwise.
ShowsLevel(level, value, warn, crit) ==
    /\ level = "CRITICAL" <=> value > crit
    /\ level = "WARN" <=> (value > warn /\ ~(value > crit))
    /\ level = "OK" <=> ~(value > warn)

C3_ThresholdLevels ==
    \A s \in Sessions :
        pc[s] = "live" =>
            LET scada == heap[state[s]]
            IN  /\ ShowsLevel(health[s].generator_temp, scada.gen_temp,
                              config.GEN_TEMP_WARN, config.GEN_TEMP_CRIT)
                /\ ShowsLevel(health[s].gearbox_temp, scada.gb_temp,
                              config.GB_TEMP_WARN, config.GB_TEMP_CRIT)
                /\ ShowsLevel(health[s].vibration, scada.vibration,
                              config.VIB_WARN, config.VIB_CRIT)

\* One call returned generator_temp CRITICAL and the call after it, on a
\* snapshot with gen_temp at or below the WARN threshold, returned OK.
C3_Witness ==
    \E s, t \in Sessions :
        /\ pc[s] = "live" /\ pc[t] = "live"
        /\ health[s].generator_temp = "CRITICAL"
        /\ health[t].generator_temp = "OK"
        /\ heap[state[t]].gen_temp <= config.GEN_TEMP_WARN
        /\ last_health = health[t]

\* C4: the performance channel is WARN exactly when cp is below 0.25 and
\* wind_speed is above CUT_IN_WIND, and OK in every other case.
C4_Performance ==
    \A s \in Sessions :
        pc[s] = "live" =>
            /\ health[s].performance \in {"OK", "WARN"}
            /\ health[s].performance = "WARN" <=>
                  (physics[s].cp < 2500
                   /\ heap[state[s]].wind_speed > config.CUT_IN_WIND)

\* A snapshot with the wind at cut-in and cp = 0 was evaluated as OK.
C4_Witness ==
    \E s \in Sessions :
        /\ pc[s] = "live"
        /\ heap[state[s]].wind_speed = config.CUT_IN_WIND
        /\ physics[s].cp = 0
        /\ health[s].performance = "OK"

\* A parameter set the specification calls inconsistent.
Inconsistent(cfg) ==
    \/ cfg.GEN_TEMP_WARN >= cfg.GEN_TEMP_CRIT
    \/ cfg.GB_TEMP_WARN >= cfg.GB_TEMP_CRIT
    \/ cfg.VIB_WARN >= cfg.VIB_CRIT
    \/ cfg.MIN_RPM > cfg.MAX_RPM
    \/ cfg.RATED_WIND <= cfg.CUT_IN_WIND
    \/ cfg.MAX_PITCH < cfg.MIN_PITCH
    \/ cfg.CP_MAX < cfg.CP_NOMINAL

\* C5 as stated: with an inconsistent parameter set the process never
\* reaches a step, compute_physics or evaluate_health call.
C5_ConfigChecked ==
    (n > 0 \/ \E s \in Sessions : pc[s] = "live") => ~Inconsistent(config)

\* The snapshots a step call on snapshot would return with generator g.
NextSnapshots(cfg, snapshot, g) ==
    {step(cfg, snapshot, d) : d \in NextDraws(g)}

\* C8 as stated: a call leaves every existing snapshot unchanged, and a step
\* of one session changes nothing that affects the snapshots produced for
\* another session (as long as the generator's tape has draws left).
C8_NoSharedState ==
    [][\A s \in Sessions :
          Stepped(s) =>
              /\ \A o \in Refs : heap'[o] = heap[o]
              /\ \A t \in Sessions \ {s} :
                    (Open(t) /\ NextDraws(rng') # {}) =>
                        NextSnapshots(config', heap'[state'[t]], rng') =
                            NextSnapshots(config, heap[state[t]], rng)]_vars

\* C8 amended: no call changes a snapshot that exists or the parameter set,
\* and a step of one session leaves the other sessions' snapshot, physics
\* and health as they are; what a step does change besides its own session
\* is the state of the shared generator.
C8_Isolation ==
    [][/\ Len(heap') >= Len(heap)
       /\ \A o \in Refs : heap'[o] = heap[o]
       /\ config' = config
       /\ \A s \in Sessions :
             Stepped(s) =>
                 \A t \in Sessions \ {s} :
                     /\ state'[t] = state[t]
                     /\ physics'[t] = physics[t]
                     /\ health'[t] = health[t]]_vars

\* Both sessions have advanced their own chain by a step.
C8_Witness ==
    /\ n >= 2
    /\ \A s \in Sessions :
          Open(s) /\ heap[state[s]] # initialize_state
    /\ state[1] # state[2]

=============================================================================
